---------------------------- MODULE Spec2Model ----------------------------
(***************************************************************************)
(* A model of WSManager (src/src/ws.ts), the connection / session manager  *)
(* of brisker-server: the identifier pool and its persistence, the         *)
(* registry of channels, the presence debouncing and the message router.   *)
(*                                                                         *)
(* Strings are sequences of one-character strings, so that the format test *)
(* /^\d{4}$/, the 'temp_' prefix test and the default names are computed   *)
(* as the code computes them.  undefined and the empty string (both falsy  *)
(* in the code's tests) are the empty sequence.                            *)
(*                                                                         *)
(* Every handler of the event loop is one action: Node runs a handler and  *)
(* the microtasks it queues to completion before the next event.           *)
(***************************************************************************)
EXTENDS Integers, Sequences, FiniteSets, TLC

\* ------------------------------------------------------------------ bounds
\* Number of channels (WebSocket objects) that may connect during a run.
NumWs == 3
\* Number of values of the random draw the model considers: 1000 .. 1000+NumIds-1.
NumIds == 2
\* Number of chained (queued) saveUsedIDs calls the model lets build up.
MaxChained == 1
\* Number of channels in the specification of the debounce.
NumDebounceWs == 2
\* Number of channels in the specification of the identifier pool.
NumPoolWs == 2
\* Largest number of registry entries in the specification of the search.
MaxEntries == 7

\* ------------------------------------------------------- program constants
OFFLINE_DEBOUNCE_MS == 2000
\* searchPlayers stops at MaxResults results.
MaxResults == 5
ONLINE_BROADCAST_DEBOUNCE_MS == 1500
\* Math.floor(Math.random() * 9000) + 1000 starts at RandomBase.
RandomBase == 1000

\* SpecDebounce advances time in steps of TickMs = 500 ms, the granularity
\* common to the two debounce windows; the other specifications advance it by
\* a whole OFFLINE_DEBOUNCE_MS.
TickMs == OFFLINE_DEBOUNCE_MS - ONLINE_BROADCAST_DEBOUNCE_MS

\* ------------------------------------------------------------------ strings
Undefined == <<>>

Falsy(s) == s = <<>>

DigitChars == <<"0", "1", "2", "3", "4", "5", "6", "7", "8", "9">>

Digits == {DigitChars[i] : i \in 1..10}

\* randomNum.toString() for a number of four decimal digits.
NumToString(n) ==
    << DigitChars[(n \div 1000) + 1], DigitChars[((n \div 100) % 10) + 1],
       DigitChars[((n \div 10) % 10) + 1], DigitChars[(n % 10) + 1] >>

\* A format test that looks at the length only.
IsFourDigitsByLength(s) == Len(s) = 4

\* A format test nothing passes.
IsFourDigitsNever(s) == FALSE

\* /^\d{4}$/.test(s)
IsFourDigits(s) == Len(s) = 4 /\ \A i \in 1..4 : s[i] \in Digits

TempPrefix == <<"t", "e", "m", "p", "_">>

\* pid.startsWith('temp_')
StartsWithTemp(s) == Len(s) >= 5 /\ SubSeq(s, 1, 5) = TempPrefix

Sockets == 1..NumWs

\* `temp_${Date.now()}_${Math.random()}`: a placeholder unique to the channel.
TempPlayerID(w) == TempPrefix \o <<DigitChars[w + 1]>>

UnknownPlayer ==
    <<"U", "n", "k", "n", "o", "w", "n", " ", "P", "l", "a", "y", "e", "r">>

\* `Player ${id}`
DefaultName(id) == <<"P", "l", "a", "y", "e", "r", " ">> \o id

\* The identifiers generateUniquePlayerID can draw.
RandomIDs == {NumToString(RandomBase + k) : k \in 0..(NumIds - 1)}

\* Payload identifiers a client may present in player:reconnect that fail the
\* format test: absent, too long, too short, a non-digit.
MalformedIDs ==
    { Undefined, <<"1", "0", "0", "0", "0">>, <<"1", "0", "0">>,
      <<"1", "0", "0", "a">> }

\* The payload identifiers of player:reconnect the model considers.
PayloadIDs == RandomIDs \cup MalformedIDs

UpperChars ==
    <<"A", "B", "C", "D", "E", "F", "G", "H", "I", "J", "K", "L", "M",
      "N", "O", "P", "Q", "R", "S", "T", "U", "V", "W", "X", "Y", "Z">>

LowerChars ==
    <<"a", "b", "c", "d", "e", "f", "g", "h", "i", "j", "k", "l", "m",
      "n", "o", "p", "q", "r", "s", "t", "u", "v", "w", "x", "y", "z">>

\* s.toLowerCase(), for the letters the model's strings use.
ToLowerCase(s) ==
    [i \in 1..Len(s) |->
        IF \E k \in 1..Len(UpperChars) : UpperChars[k] = s[i]
        THEN LowerChars[CHOOSE k \in 1..Len(UpperChars) : UpperChars[k] = s[i]]
        ELSE s[i]]

\* s.includes(t)
Includes(s, t) ==
    \E i \in 0..(Len(s) - Len(t)) : SubSeq(s, i + 1, i + Len(t)) = t

\* s.trim(), white space being the blank.
Trim(s) ==
    LET kept == {i \in 1..Len(s) : s[i] # " "} IN
    IF kept = {} THEN <<>>
    ELSE SubSeq(s, CHOOSE i \in kept : \A j \in kept : i <= j,
                   CHOOSE i \in kept : \A j \in kept : i >= j)

\* A snapshot { total, history } is modelled by its total.
Totals == {40}

VARIABLES
    readyState,          \* ws.readyState of each channel ("NEW" before it connects)
    wsToClient,          \* the channels that are keys of wsToClient
    playerID,            \* ClientInfo.playerID of each channel's ClientInfo
    name,                \* ClientInfo.name
    opponentID,          \* ClientInfo.opponentID
    lastState,           \* ClientInfo.lastState
    location,            \* ClientInfo.location
    clients,             \* clients: identifier -> channel of the ClientInfo
    offlineTimers,       \* offlineTimers: identifier -> timer handle
    timers,              \* the scheduled setTimeout callbacks not yet run or cleared
    lastOnlineBroadcast, \* identifier -> ms elapsed since the recorded Date.now()
                         \* (entries older than the window are dropped)
    usedPlayerIDs,       \* the in-memory set of used identifiers
    savingPromise,       \* TRUE iff (this as any).savingPromise is not null
    chained,             \* .then(() => this.saveUsedIDs()) callbacks not yet run
    inflight,            \* the running bodies of saveUsedIDs' async function
    file,                \* data/used_player_ids.json
    tmp,                 \* data/used_player_ids.json.tmp
    loadPc,              \* where loadUsedIDs stands
    ev,                  \* history: the event handled last
    sent,                \* history: the messages the last handler delivered
    issued,              \* history: identifiers generateUniquePlayerID returned
    lastReq,             \* history: usedPlayerIDs at the last saveUsedIDs call
    ioFailed,            \* history: some file operation of a save has failed
    rejected,            \* history: a saveUsedIDs promise was rejected
    announced,           \* history: per identifier, the last sendPlayerOnline call: ms
                         \* since, was the opponent reachable, was player:online sent
    search               \* a call of searchPlayers on its own: the entries of clients
                         \* in insertion order, the two arguments, the array returned

regVars == <<readyState, wsToClient, playerID, name, opponentID, lastState,
             location, clients, offlineTimers, timers, lastOnlineBroadcast>>

poolVars == <<usedPlayerIDs, savingPromise, chained, inflight, file, tmp, loadPc>>

histVars == <<ev, sent, issued, lastReq, ioFailed, rejected, announced>>

vars == <<regVars, poolVars, histVars, search>>


\* ------------------------------------------------------------ history records
\* The event handled last: its kind, its channel, the identifier it is about,
\* and two facts of the state it started in: `other`, a second channel the
\* event concerns (the previous holder a bind replaced; the open channel of the
\* declared opponent when an offline timer fires), and `flag` (a bind found a
\* pending offline timer; a close scheduled one).
Ev(op, w, pid, other, flag) ==
    [op |-> op, ws |-> w, pid |-> pid, other |-> other, flag |-> flag]

NoWs == 0

PoolEv(op) == Ev(op, NoWs, <<>>, NoWs, FALSE)

\* A delivered message: the channel it went to, its type and its payload
\* (playerID / opponentID, name, gameState; Undefined where the type has none).
Msg(to, type, pid, nm, st) ==
    [to |-> to, type |-> type, playerID |-> pid, name |-> nm, state |-> st]

\* ------------------------------------------------------------ identifier pool
Absent == [exists |-> FALSE, ids |-> {}]

Stored(ids) == [exists |-> TRUE, ids |-> ids]

\* The body of saveUsedIDs' async function, started: it runs up to `await mkdir`.
StartSave(fl) == Append(fl, [pc |-> "mkdir", data |-> {}])

\* A saveUsedIDs that returns the promise of the save in flight and chains
\* nothing behind it.
SaveUsedIDsUnchained(sp, ch, fl) ==
    IF sp
    THEN [savingPromise |-> TRUE, chained |-> ch, inflight |-> fl]
    ELSE [savingPromise |-> TRUE, chained |-> ch, inflight |-> StartSave(fl)]

\* saveUsedIDs(): chain behind a save in flight, else start one.
SaveUsedIDs(sp, ch, fl) ==
    IF sp
    THEN [savingPromise |-> TRUE, chained |-> ch + 1, inflight |-> fl]
    ELSE [savingPromise |-> TRUE, chained |-> ch, inflight |-> StartSave(fl)]

RemoveAt(fl, i) == SubSeq(fl, 1, i - 1) \o SubSeq(fl, i + 1, Len(fl))

\* An async body without the outer try/catch: what is thrown rejects the promise.
SaveSettlesUncaught(thrown) == IF thrown THEN "rejected" ELSE "fulfilled"

\* The outer try/catch of the async body: whatever was thrown is logged, so the
\* promise is fulfilled.
SaveSettles(thrown) == "fulfilled"

\* The body of instance i ends: `finally` clears savingPromise, the promise
\* settles and, in the same microtask run, the callback chained first calls
\* saveUsedIDs(), which starts the next body; callbacks chained behind it stay
\* chained behind that one.
FinishSave(fl, i, ch) ==
    IF ch > 0
    THEN SaveUsedIDs(FALSE, ch - 1, RemoveAt(fl, i))
    ELSE [savingPromise |-> FALSE, chained |-> 0, inflight |-> RemoveAt(fl, i)]

\* A step of a save that ends its body; thrown tells whether it ends by a throw.
SaveEnds(i, thrown) ==
    LET r == FinishSave(inflight, i, chained) IN
    /\ savingPromise' = r.savingPromise
    /\ chained' = r.chained
    /\ inflight' = r.inflight
    /\ rejected' = (rejected \/ SaveSettles(thrown) = "rejected")

\* A step of a save that goes on to the next await with snapshot data.
SaveGoes(i, pc, data) ==
    /\ inflight' = [inflight EXCEPT ![i] = [pc |-> pc, data |-> data]]
    /\ UNCHANGED <<savingPromise, chained, rejected>>

SaveFrame(op) ==
    /\ ev' = PoolEv(op)
    /\ sent' = {}
    /\ UNCHANGED <<regVars, usedPlayerIDs, loadPc, issued, lastReq, announced, search>>

\* `await fs.promises.mkdir(dir)` resolved: JSON.stringify the set and issue the
\* write of the temp file.
SaveMkdirDone(i) ==
    /\ inflight[i].pc = "mkdir"
    /\ SaveGoes(i, "writeTmp", usedPlayerIDs)
    /\ UNCHANGED <<file, tmp, ioFailed>>
    /\ SaveFrame("save")

\* mkdir rejected: the outer catch logs it.
SaveMkdirFail(i) ==
    /\ inflight[i].pc = "mkdir"
    /\ SaveEnds(i, TRUE)
    /\ ioFailed' = TRUE
    /\ UNCHANGED <<file, tmp>>
    /\ SaveFrame("save_fail")

\* The temp file is written: issue the rename.
SaveWriteTmpDone(i) ==
    /\ inflight[i].pc = "writeTmp"
    /\ tmp' = Stored(inflight[i].data)
    /\ SaveGoes(i, "rename", inflight[i].data)
    /\ UNCHANGED <<file, ioFailed>>
    /\ SaveFrame("save")

\* The temp write failed: fall back to a direct write of the current set.
SaveWriteTmpFail(i) ==
    /\ inflight[i].pc = "writeTmp"
    /\ SaveGoes(i, "directAfterWrite", usedPlayerIDs)
    /\ ioFailed' = TRUE
    /\ UNCHANGED <<file, tmp>>
    /\ SaveFrame("save_fail")

\* The direct write after a failed temp write succeeded: return.
SaveDirectAfterWriteDone(i) ==
    /\ inflight[i].pc = "directAfterWrite"
    /\ file' = Stored(inflight[i].data)
    /\ SaveEnds(i, FALSE)
    /\ UNCHANGED <<tmp, ioFailed>>
    /\ SaveFrame("save")

\* The direct write failed too: throw writeErr.
SaveDirectAfterWriteFail(i) ==
    /\ inflight[i].pc = "directAfterWrite"
    /\ SaveEnds(i, TRUE)
    /\ ioFailed' = TRUE
    /\ UNCHANGED <<file, tmp>>
    /\ SaveFrame("save_fallback_fail")

\* The rename succeeded (the temp file was there): the body ends.
SaveRenameDone(i) ==
    /\ inflight[i].pc = "rename"
    /\ tmp.exists
    /\ file' = Stored(tmp.ids)
    /\ tmp' = Absent
    /\ SaveEnds(i, FALSE)
    /\ UNCHANGED ioFailed
    /\ SaveFrame("save")

\* The rename failed: fall back to a direct write of the current set.
SaveRenameFail(i) ==
    /\ inflight[i].pc = "rename"
    /\ SaveGoes(i, "directAfterRename", usedPlayerIDs)
    /\ ioFailed' = TRUE
    /\ UNCHANGED <<file, tmp>>
    /\ SaveFrame("save_fail")

\* The direct write after a failed rename succeeded: unlink the temp file.
SaveDirectAfterRenameDone(i) ==
    /\ inflight[i].pc = "directAfterRename"
    /\ file' = Stored(inflight[i].data)
    /\ SaveGoes(i, "unlink", inflight[i].data)
    /\ UNCHANGED <<tmp, ioFailed>>
    /\ SaveFrame("save")

\* The direct write failed too: throw renameErr.
SaveDirectAfterRenameFail(i) ==
    /\ inflight[i].pc = "directAfterRename"
    /\ SaveEnds(i, TRUE)
    /\ ioFailed' = TRUE
    /\ UNCHANGED <<file, tmp>>
    /\ SaveFrame("save_fallback_fail")

\* unlink(tmp) settled (its failure is ignored): return.
SaveUnlinkDone(i) ==
    /\ inflight[i].pc = "unlink"
    /\ tmp' = Absent
    /\ SaveEnds(i, FALSE)
    /\ UNCHANGED <<file, ioFailed>>
    /\ SaveFrame("save")

LoadFrame ==
    /\ ev' = PoolEv("load")
    /\ sent' = {}
    /\ UNCHANGED <<regVars, savingPromise, chained, inflight, file, tmp>>
    /\ UNCHANGED <<issued, lastReq, ioFailed, rejected, announced, search>>

\* loadUsedIDs after `await mkdir`: return if the file is not there, else
\* issue the read.
LoadMkdirDone ==
    /\ loadPc = "mkdir"
    /\ loadPc' = IF file.exists THEN "read" ELSE "done"
    /\ UNCHANGED usedPlayerIDs
    /\ LoadFrame

\* readFile resolved: parse the array and add every identifier to the set.
LoadReadDone ==
    /\ loadPc = "read"
    /\ usedPlayerIDs' = usedPlayerIDs \cup file.ids
    /\ loadPc' = "done"
    /\ LoadFrame

\* --------------------------------------------------------------- the registry
\* Map.set and Map.delete on a map held as a function.
MapSet(m, k, v) == [x \in (DOMAIN m) \cup {k} |-> IF x = k THEN v ELSE m[x]]

MapDelete(m, k) == [x \in (DOMAIN m) \ {k} |-> m[x]]

EmptyMap == <<>>

\* A close() that leaves the channel open.
WsCloseKept(rs, w) == rs

\* ws.close(): an open channel starts closing; its 'close' event comes later.
WsClose(rs, w) == [rs EXCEPT ![w] = IF @ = "OPEN" THEN "CLOSING" ELSE @]

\* ws.send(...) on the handler's own channel.
WsSend(rs, w, type, pid, nm, st) ==
    IF rs[w] = "OPEN" THEN {Msg(w, type, pid, nm, st)} ELSE {}

\* opponent && opponent.ws && opponent.ws.readyState === opponent.ws.OPEN
IsOpen(cl, rs, pid) == pid \in DOMAIN cl /\ rs[cl[pid]] = "OPEN"

\* send(playerID, message) without the readyState test.
SendToAnyState(cl, rs, pid, type, p, nm, st) ==
    IF pid \in DOMAIN cl THEN {Msg(cl[pid], type, p, nm, st)} ELSE {}

\* send(playerID, message)
Send(cl, rs, pid, type, p, nm, st) ==
    IF IsOpen(cl, rs, pid) THEN {Msg(cl[pid], type, p, nm, st)} ELSE {}

\* now - (lastOnlineBroadcast.get(playerID) || 0): the map holds the time
\* elapsed since the recorded instant; an entry older than the window, like no
\* entry (Date.now() - 0), is outside the window.
SinceLastOnline(lob, pid) ==
    IF pid \in DOMAIN lob THEN lob[pid] ELSE ONLINE_BROADCAST_DEBOUNCE_MS

\* The channel sendPlayerOnline / sendPlayerOffline look up: that of the
\* opponent the client of playerID declares, if it is in clients and open.
OpponentChannel(cl, rs, oppOf, pid) ==
    IF /\ pid \in DOMAIN cl
       /\ ~Falsy(oppOf[cl[pid]])
       /\ IsOpen(cl, rs, oppOf[cl[pid]])
    THEN cl[oppOf[cl[pid]]]
    ELSE NoWs

\* A notification that goes to every open channel.
NotifyEveryone(cl, rs, pidOf, oppOf, pid, type) ==
    {Msg(w, type, pid, Undefined, Undefined) : w \in {x \in Sockets : rs[x] = "OPEN"}}

\* this.send(opponent.playerID, { type, payload: { playerID } })
NotifyOpponent(cl, rs, pidOf, oppOf, pid, type) ==
    LET o == OpponentChannel(cl, rs, oppOf, pid) IN
    IF o # NoWs
    THEN Send(cl, rs, pidOf[o], type, pid, Undefined, Undefined)
    ELSE {}

\* A sendPlayerOnline without the debounce.
SendPlayerOnlineUndebounced(cl, rs, pidOf, oppOf, lob, pid) ==
    [lob |-> MapSet(lob, pid, 0),
     out |-> NotifyOpponent(cl, rs, pidOf, oppOf, pid, "player:online")]

\* sendPlayerOnline(playerID): the new lastOnlineBroadcast and the messages.
SendPlayerOnline(cl, rs, pidOf, oppOf, lob, pid) ==
    IF SinceLastOnline(lob, pid) < ONLINE_BROADCAST_DEBOUNCE_MS
    THEN [lob |-> lob, out |-> {}]
    ELSE [lob |-> MapSet(lob, pid, 0),
          out |-> NotifyOpponent(cl, rs, pidOf, oppOf, pid, "player:online")]

\* sendPlayerOffline(playerID)
SendPlayerOffline(cl, rs, pidOf, oppOf, pid) ==
    NotifyOpponent(cl, rs, pidOf, oppOf, pid, "player:offline")

\* A draw that rejects only the identifiers in the registry.
FreshIDsUnremembered(used, cl) ==
    {id \in RandomIDs : ~(id \in DOMAIN cl)}

\* The candidates that leave generateUniquePlayerID's do-while loop.
FreshIDs(used, cl) ==
    {id \in RandomIDs : ~(id \in used \/ id \in DOMAIN cl)}

\* A handle for a new setTimeout: one no scheduled timer has.
NewTimer(ts) == CHOOSE h \in 1..(Cardinality(ts) + 1) : \A t \in ts : t.h # h

\* setTimeout(callback for pid, OFFLINE_DEBOUNCE_MS)
Scheduled(ts, pid) == [h |-> NewTimer(ts), pid |-> pid, due |-> OFFLINE_DEBOUNCE_MS]

\* A clearTimeout that leaves the timer scheduled.
ClearTimeoutKept(ts, h) == ts

\* clearTimeout(handle)
ClearTimeout(ts, h) == {t \in ts : t.h # h}

\* A channel whose 'close' event has been handled and that no entry of clients
\* holds is unreachable, and so is its ClientInfo.  The model gives such a
\* channel back (NEW, a fresh ClientInfo), where it stands for a channel that
\* has not connected yet.
Garbage(rs, cl) ==
    {w \in Sockets : rs[w] = "CLOSED" /\ \A k \in DOMAIN cl : cl[k] # w}

Sweep(rs, cl) == [w \in Sockets |-> IF w \in Garbage(rs, cl) THEN "NEW" ELSE rs[w]]

SweepField(f, fresh, rs, cl) ==
    [w \in Sockets |-> IF w \in Garbage(rs, cl) THEN fresh[w] ELSE f[w]]

FreshPlayerID == [w \in Sockets |-> TempPlayerID(w)]

FreshName == [w \in Sockets |-> UnknownPlayer]

FreshField == [w \in Sockets |-> Undefined]

\* The ClientInfo fields a handler leaves alone, after rs and cl are settled.
SweepRest(rs, cl) ==
    /\ opponentID' = SweepField(opponentID, FreshField, rs, cl)
    /\ lastState' = SweepField(lastState, FreshField, rs, cl)
    /\ location' = SweepField(location, FreshField, rs, cl)

\* handleMessage runs for a channel that delivers messages and is in wsToClient.
Receives(w) == readyState[w] = "OPEN" /\ w \in wsToClient

\* onConnection(ws, req); channels are interchangeable, so they connect in the
\* order of their numbers.
OnConnection(w) ==
    /\ readyState[w] = "NEW"
    /\ \A v \in Sockets : v < w => readyState[v] # "NEW"
    /\ readyState' = [readyState EXCEPT ![w] = "OPEN"]
    /\ playerID' = [playerID EXCEPT ![w] = TempPlayerID(w)]
    /\ name' = [name EXCEPT ![w] = UnknownPlayer]
    /\ wsToClient' = wsToClient \cup {w}
    /\ sent' = WsSend(readyState', w, "connection:established", Undefined, Undefined, Undefined)
    /\ ev' = Ev("connection", w, Undefined, NoWs, FALSE)
    /\ UNCHANGED <<opponentID, lastState, location, clients, offlineTimers, timers,
                   lastOnlineBroadcast, poolVars, issued, lastReq, ioFailed, rejected, announced, search>>

\* The peer closes, or the connection drops: readyState leaves OPEN and the
\* 'close' event follows.
PeerCloses(w) ==
    /\ readyState[w] = "OPEN"
    /\ readyState' = WsClose(readyState, w)
    /\ sent' = {}
    /\ ev' = Ev("closing", w, Undefined, NoWs, FALSE)
    /\ UNCHANGED <<wsToClient, playerID, name, opponentID, lastState, location, clients,
                   offlineTimers, timers, lastOnlineBroadcast, poolVars,
                   issued, lastReq, ioFailed, rejected, announced, search>>

\* case 'player:request_id' with generateUniquePlayerID returning newPlayerID
HandleRequestId(w, playerName, newPlayerID) ==
    /\ Receives(w)
    /\ chained < MaxChained
    /\ newPlayerID \in FreshIDs(usedPlayerIDs, clients)
    /\ usedPlayerIDs' = usedPlayerIDs \cup {newPlayerID}
    /\ LET sv == SaveUsedIDs(savingPromise, chained, inflight)
           prev == IF newPlayerID \in DOMAIN clients THEN clients[newPlayerID] ELSE NoWs
           replaced == prev # NoWs /\ prev # w
           rs == IF replaced THEN WsClose(readyState, prev) ELSE readyState
           cl == MapSet(clients, newPlayerID, w)
           pidOf == [playerID EXCEPT ![w] = newPlayerID]
           on == SendPlayerOnline(cl, rs, pidOf, opponentID, lastOnlineBroadcast,
                                  newPlayerID)
       IN
       /\ savingPromise' = sv.savingPromise
       /\ chained' = sv.chained
       /\ inflight' = sv.inflight
       /\ playerID' = SweepField(pidOf, FreshPlayerID, rs, cl)
       /\ name' = SweepField(
                    [name EXCEPT ![w] = IF Falsy(playerName)
                                         THEN DefaultName(newPlayerID) ELSE playerName],
                    FreshName, rs, cl)
       /\ readyState' = Sweep(rs, cl)
       /\ wsToClient' = (IF replaced THEN wsToClient \ {prev} ELSE wsToClient) \cup {w}
       /\ clients' = cl
       /\ lastOnlineBroadcast' = on.lob
       /\ sent' = WsSend(rs, w, "player:id_assigned", newPlayerID, Undefined, Undefined)
                    \cup on.out
       /\ ev' = Ev("request_id", w, newPlayerID, IF replaced THEN prev ELSE NoWs, FALSE)
       /\ SweepRest(rs, cl)
    /\ issued' = issued \cup {newPlayerID}
    /\ lastReq' = usedPlayerIDs'
    /\ UNCHANGED <<offlineTimers, timers, file, tmp, loadPc, ioFailed, rejected, search>>

\* A failed allocation that is not caught by the listener and ends the channel.
HandleRequestIdExhaustedClosing(w) ==
    /\ Receives(w)
    /\ \E id \in RandomIDs : id \notin FreshIDs(usedPlayerIDs, clients)
    /\ readyState' = WsClose(readyState, w)
    /\ sent' = {}
    /\ ev' = Ev("request_id_failed", w, Undefined, NoWs, FALSE)
    /\ UNCHANGED <<wsToClient, playerID, name, opponentID, lastState, location, clients,
                   offlineTimers, timers, lastOnlineBroadcast, poolVars,
                   issued, lastReq, ioFailed, rejected, announced, search>>

\* case 'player:request_id' with generateUniquePlayerID throwing after 1000
\* draws that were all taken; the 'message' listener's try/catch logs it.
HandleRequestIdExhausted(w) ==
    /\ Receives(w)
    /\ \E id \in RandomIDs : id \notin FreshIDs(usedPlayerIDs, clients)
    /\ sent' = {}
    /\ ev' = Ev("request_id_failed", w, Undefined, NoWs, FALSE)
    /\ UNCHANGED <<regVars, poolVars, issued, lastReq, ioFailed, rejected, announced, search>>

\* case 'player:reconnect' with a payload playerID that passes the format test
HandleReconnect(w, existingPlayerID, payloadName) ==
    /\ Receives(w)
    /\ chained < MaxChained
    /\ ~Falsy(existingPlayerID) /\ IsFourDigits(existingPlayerID)
    /\ usedPlayerIDs' = usedPlayerIDs \cup {existingPlayerID}
    /\ LET pending == existingPlayerID \in DOMAIN offlineTimers
           prev == IF existingPlayerID \in DOMAIN clients
                   THEN clients[existingPlayerID] ELSE NoWs
           replaced == prev # NoWs /\ prev # w
           rs == IF replaced THEN WsClose(readyState, prev) ELSE readyState
           cl == MapSet(clients, existingPlayerID, w)
           pidOf == [playerID EXCEPT ![w] = existingPlayerID]
           nm == IF Falsy(payloadName) THEN DefaultName(existingPlayerID) ELSE payloadName
           sv == SaveUsedIDs(savingPromise, chained, inflight)
           on == SendPlayerOnline(cl, rs, pidOf, opponentID, lastOnlineBroadcast,
                                  existingPlayerID)
           resume ==
               IF /\ ~Falsy(lastState[w])
                  /\ ~Falsy(opponentID[w])
                  /\ IsOpen(cl, rs, opponentID[w])
               THEN Send(cl, rs, opponentID[w], "game:resume",
                         existingPlayerID, nm, lastState[w])
               ELSE {}
       IN
       /\ timers' = IF pending
                    THEN ClearTimeout(timers, offlineTimers[existingPlayerID])
                    ELSE timers
       /\ offlineTimers' = IF pending
                           THEN MapDelete(offlineTimers, existingPlayerID)
                           ELSE offlineTimers
       /\ readyState' = Sweep(rs, cl)
       /\ wsToClient' = (IF replaced THEN wsToClient \ {prev} ELSE wsToClient) \cup {w}
       /\ playerID' = SweepField(pidOf, FreshPlayerID, rs, cl)
       /\ name' = SweepField([name EXCEPT ![w] = nm], FreshName, rs, cl)
       /\ clients' = cl
       /\ savingPromise' = sv.savingPromise
       /\ chained' = sv.chained
       /\ inflight' = sv.inflight
       /\ lastOnlineBroadcast' = on.lob
       /\ sent' = WsSend(rs, w, "player:reconnected", existingPlayerID, Undefined, Undefined)
                    \cup on.out \cup resume
       /\ ev' = Ev("reconnect", w, existingPlayerID,
                   IF replaced THEN prev ELSE NoWs, pending)
       /\ SweepRest(rs, cl)
    /\ lastReq' = usedPlayerIDs'
    /\ UNCHANGED <<file, tmp, loadPc, issued, ioFailed, rejected, search>>

\* case 'player:reconnect' with a payload playerID that is absent or malformed
HandleReconnectInvalid(w, existingPlayerID) ==
    /\ Receives(w)
    /\ ~(~Falsy(existingPlayerID) /\ IsFourDigits(existingPlayerID))
    /\ sent' = WsSend(readyState, w, "player:invalid_id", Undefined, Undefined, Undefined)
    /\ ev' = Ev("reconnect_invalid", w, existingPlayerID, NoWs, FALSE)
    /\ UNCHANGED <<regVars, poolVars, issued, lastReq, ioFailed, rejected, announced, search>>

\* player:state_update that also pairs the named opponent with the sender and
\* sends it the state.
HandleStateUpdateForwarded(w, pName, pLocation, pOpponentID, pTotal) ==
    /\ Receives(w)
    /\ name' = [name EXCEPT ![w] = IF Falsy(pName) THEN @ ELSE pName]
    /\ location' = [location EXCEPT ![w] = IF Falsy(pLocation) THEN @ ELSE pLocation]
    /\ opponentID' = IF pOpponentID \in DOMAIN clients
                     THEN [opponentID EXCEPT ![w] = pOpponentID,
                                             ![clients[pOpponentID]] = playerID[w]]
                     ELSE [opponentID EXCEPT ![w] = IF Falsy(pOpponentID) THEN @
                                                    ELSE pOpponentID]
    /\ lastState' = [lastState EXCEPT ![w] = <<pTotal>>]
    /\ sent' = Send(clients, readyState, pOpponentID, "game:resume", playerID[w],
                    Undefined, <<pTotal>>)
    /\ ev' = Ev("state_update", w, pOpponentID, NoWs, FALSE)
    /\ UNCHANGED <<readyState, wsToClient, playerID, clients, offlineTimers, timers,
                   lastOnlineBroadcast, poolVars, issued, lastReq, ioFailed, rejected, announced, search>>

\* case 'player:state_update' with payload { name, location, opponentID, total }
HandleStateUpdate(w, pName, pLocation, pOpponentID, pTotal) ==
    /\ Receives(w)
    /\ name' = [name EXCEPT ![w] = IF Falsy(pName) THEN @ ELSE pName]
    /\ location' = [location EXCEPT ![w] = IF Falsy(pLocation) THEN @ ELSE pLocation]
    /\ opponentID' = [opponentID EXCEPT ![w] = IF Falsy(pOpponentID) THEN @ ELSE pOpponentID]
    /\ lastState' = [lastState EXCEPT ![w] = <<pTotal>>]
    /\ sent' = {}
    /\ ev' = Ev("state_update", w, pOpponentID, NoWs, FALSE)
    /\ UNCHANGED <<readyState, wsToClient, playerID, clients, offlineTimers, timers,
                   lastOnlineBroadcast, poolVars, issued, lastReq, ioFailed, rejected, announced, search>>

\* The 'close' listener, for a channel still in wsToClient.
OnClose(w) ==
    /\ readyState[w] = "CLOSING"
    /\ w \in wsToClient
    /\ wsToClient' = wsToClient \ {w}
    /\ LET pid == playerID[w]
           schedule == /\ ~StartsWithTemp(pid)
                       /\ pid \in DOMAIN clients
                       /\ clients[pid] = w
           t == Scheduled(timers, pid)
           rs == [readyState EXCEPT ![w] = "CLOSED"]
       IN
       /\ timers' = IF schedule THEN timers \cup {t} ELSE timers
       /\ offlineTimers' = IF schedule THEN MapSet(offlineTimers, pid, t.h)
                           ELSE offlineTimers
       /\ ev' = Ev("close", w, IF schedule THEN pid ELSE Undefined, NoWs, schedule)
       /\ readyState' = Sweep(rs, clients)
       /\ playerID' = SweepField(playerID, FreshPlayerID, rs, clients)
       /\ name' = SweepField(name, FreshName, rs, clients)
       /\ SweepRest(rs, clients)
    /\ sent' = {}
    /\ UNCHANGED <<clients, lastOnlineBroadcast, poolVars,
                   issued, lastReq, ioFailed, rejected, announced, search>>

\* The 'close' listener, for a channel no longer in wsToClient: the first entry
\* of clients that holds the channel (key = the entry's key, Undefined if there
\* is none) gets the timer.  The map keeps no insertion order here, so any of
\* the entries holding the channel may be the first.
OnCloseUnmapped(w, key) ==
    /\ readyState[w] = "CLOSING"
    /\ w \notin wsToClient
    /\ LET held == {k \in DOMAIN clients : clients[k] = w} IN
       IF held = {} THEN key = Undefined ELSE key \in held
    /\ LET t == Scheduled(timers, key)
           rs == [readyState EXCEPT ![w] = "CLOSED"]
       IN
       /\ timers' = IF key # Undefined THEN timers \cup {t} ELSE timers
       /\ offlineTimers' = IF key # Undefined THEN MapSet(offlineTimers, key, t.h)
                           ELSE offlineTimers
       /\ readyState' = Sweep(rs, clients)
       /\ playerID' = SweepField(playerID, FreshPlayerID, rs, clients)
       /\ name' = SweepField(name, FreshName, rs, clients)
       /\ SweepRest(rs, clients)
    /\ ev' = Ev("close_unmapped", w, key, NoWs, key # Undefined)
    /\ sent' = {}
    /\ UNCHANGED <<wsToClient, clients, lastOnlineBroadcast, poolVars,
                   issued, lastReq, ioFailed, rejected, announced, search>>

\* The setTimeout callback of the 'close' listener, for timer t.
OfflineTimerFired(t) ==
    /\ t \in timers
    /\ t.due = 0
    /\ timers' = timers \ {t}
    /\ offlineTimers' = MapDelete(offlineTimers, t.pid)
    /\ lastOnlineBroadcast' = MapDelete(lastOnlineBroadcast, t.pid)
    /\ LET cl == MapDelete(clients, t.pid) IN
       /\ clients' = cl
       /\ sent' = SendPlayerOffline(cl, readyState, playerID, opponentID, t.pid)
       /\ readyState' = Sweep(readyState, cl)
       /\ playerID' = SweepField(playerID, FreshPlayerID, readyState, cl)
       /\ name' = SweepField(name, FreshName, readyState, cl)
       /\ SweepRest(readyState, cl)
    /\ ev' = Ev("offline_timer",
                IF t.pid \in DOMAIN clients THEN clients[t.pid] ELSE NoWs, t.pid,
                OpponentChannel(clients, readyState, opponentID, t.pid), FALSE)
    /\ UNCHANGED <<wsToClient, poolVars, issued, lastReq, ioFailed, rejected, announced, search>>

\* name || ''
NameOrEmpty(nm) == IF Falsy(nm) THEN <<>> ELSE nm

\* game:start answers game:error without looking at the registry.
StartRejectedOnlyMissing(pOpponentID, currentPlayerID) == Falsy(pOpponentID)

\* !opponentID || opponentID === currentPlayerID
StartRejected(pOpponentID, currentPlayerID) ==
    Falsy(pOpponentID) \/ pOpponentID = currentPlayerID

\* case 'game:start' with payload { opponentID }.  The two assignments are made
\* in the order of the code: when both ClientInfo objects are the same one, the
\* second stands.
HandleGameStart(w, pOpponentID) ==
    /\ Receives(w)
    /\ LET currentPlayerID == playerID[w]
           found == pOpponentID \in DOMAIN clients
           opponent == IF found THEN clients[pOpponentID] ELSE NoWs
       IN
       IF StartRejected(pOpponentID, currentPlayerID)
       THEN /\ sent' = WsSend(readyState, w, "game:error", Undefined, Undefined, Undefined)
            /\ ev' = Ev("game_start", w, pOpponentID, NoWs, FALSE)
            /\ UNCHANGED opponentID
       ELSE /\ opponentID' = IF found
                             THEN [opponentID EXCEPT ![w] = pOpponentID,
                                                     ![opponent] = currentPlayerID]
                             ELSE opponentID
            /\ sent' = IF found
                       THEN Send(clients, readyState, currentPlayerID, "game:auto_joined",
                                 pOpponentID, NameOrEmpty(name[opponent]), Undefined)
                            \cup
                            Send(clients, readyState, pOpponentID, "game:auto_joined",
                                 currentPlayerID, NameOrEmpty(name[w]), Undefined)
                       ELSE {}
            /\ ev' = Ev("game_start", w, pOpponentID, opponent, found)
    /\ UNCHANGED <<readyState, wsToClient, playerID, name, lastState, location, clients,
                   offlineTimers, timers, lastOnlineBroadcast, poolVars,
                   issued, lastReq, ioFailed, rejected, announced, search>>

\* A score as the payload carries it: absent, or a number.
Scores == {Undefined} \cup {<<t>> : t \in Totals}

\* payload?.score || 0
ScoreOrZero(score) == IF Falsy(score) \/ score = <<0>> THEN <<0>> ELSE score

\* case 'game:score_update' with payload { opponentID, score }; the event
\* records whether the payload had no score.
HandleScoreUpdate(w, pOpponentID, pScore) ==
    /\ Receives(w)
    /\ sent' = IF ~Falsy(pOpponentID)
               THEN Send(clients, readyState, pOpponentID, "game:opponent_scored",
                         playerID[w], Undefined, ScoreOrZero(pScore))
               ELSE {}
    /\ ev' = Ev("score_update", w, pOpponentID, NoWs, Falsy(pScore))
    /\ UNCHANGED <<regVars, poolVars, issued, lastReq, ioFailed, rejected, announced, search>>

\* The event types forwarded to the named opponent behind the same guard.
ForwardedTypes == {"game:apply_brisks", "game:opponent_undo", "game:reset"}

\* What the forwarded payload carries besides from: briskCount, points, nothing.
ForwardedValues(type) == IF type = "game:reset" THEN {Undefined}
                         ELSE {<<t>> : t \in Totals}

\* The guard without the test against the sender's own identifier.
ForwardToSelfToo(cl, rs, currentPlayerID, targetOpponentID, type, value) ==
    IF ~Falsy(targetOpponentID) /\ IsOpen(cl, rs, targetOpponentID)
    THEN Send(cl, rs, targetOpponentID, type, currentPlayerID, Undefined, value)
    ELSE {}

\* if (!targetOpponentID || targetOpponentID === currentPlayerID) break;
\* if (target && target.ws && target.ws.readyState === target.ws.OPEN) send(...)
Forward(cl, rs, currentPlayerID, targetOpponentID, type, value) ==
    IF Falsy(targetOpponentID) \/ targetOpponentID = currentPlayerID
    THEN {}
    ELSE IF IsOpen(cl, rs, targetOpponentID)
         THEN Send(cl, rs, targetOpponentID, type, currentPlayerID, Undefined, value)
         ELSE {}

\* case 'game:apply_brisks', 'game:opponent_undo', 'game:reset' with payload
\* { opponentID, briskCount | points }.  A message without payload makes the
\* first two throw at .opponentID; the listener's catch logs it: nothing is
\* sent, as for a payload without opponentID.
HandleForward(w, type, pOpponentID, value) ==
    /\ Receives(w)
    /\ sent' = Forward(clients, readyState, playerID[w], pOpponentID, type, value)
    /\ ev' = Ev(type, w, pOpponentID, NoWs, FALSE)
    /\ UNCHANGED <<regVars, poolVars, issued, lastReq, ioFailed, rejected, announced, search>>

\* A message of type 'game:apply_points': the switch of handleMessage has no
\* case for it, so no statement runs.
HandleApplyPoints(w, pOpponentID, value) ==
    /\ Receives(w)
    /\ sent' = {}
    /\ ev' = Ev("game:apply_points", w, pOpponentID, NoWs, FALSE)
    /\ UNCHANGED <<regVars, poolVars, issued, lastReq, ioFailed, rejected, announced, search>>

\* The kinds of input no statement runs for: data that JSON.parse rejects (the
\* listener's catch logs the error) and a message whose type the switch has
\* no case for.
IgnoredKinds == {"malformed", "unknown_type"}

\* An ignored input that is treated as a channel error.
HandleIgnoredClosing(w, kind) ==
    /\ Receives(w)
    /\ kind \in IgnoredKinds
    /\ readyState' = WsClose(readyState, w)
    /\ sent' = {}
    /\ ev' = Ev(kind, w, Undefined, NoWs, FALSE)
    /\ UNCHANGED <<wsToClient, playerID, name, opponentID, lastState, location, clients,
                   offlineTimers, timers, lastOnlineBroadcast, poolVars,
                   issued, lastReq, ioFailed, rejected, announced, search>>

\* The 'message' listener for an input of one of the ignored kinds.
HandleIgnored(w, kind) ==
    /\ Receives(w)
    /\ kind \in IgnoredKinds
    /\ sent' = {}
    /\ ev' = Ev(kind, w, Undefined, NoWs, FALSE)
    /\ UNCHANGED <<regVars, poolVars, issued, lastReq, ioFailed, rejected, announced, search>>

\* getAllPlayers(excludePlayerID), with the handler's name || ''.  The array
\* is modelled by the set of its entries (the keys of a Map are distinct), the
\* { x, y } form of a location by the stored location.
GetAllPlayers(cl, rs, nameOf, locationOf, excludePlayerID) ==
    {[playerID |-> id, name |-> NameOrEmpty(nameOf[cl[id]]),
      isOnline |-> rs[cl[id]] = "OPEN", location |-> locationOf[cl[id]]] :
        id \in DOMAIN cl \ {excludePlayerID}}

\* case 'players:get_all'
HandleGetAll(w) ==
    /\ Receives(w)
    /\ sent' = Send(clients, readyState, playerID[w], "players:list", Undefined, Undefined,
                    GetAllPlayers(clients, readyState, name, location, playerID[w]))
    /\ ev' = Ev("get_all", w, Undefined, NoWs, FALSE)
    /\ UNCHANGED <<regVars, poolVars, issued, lastReq, ioFailed, rejected, announced, search>>

\* results.length >= 5 never holds.
LimitNeverReached(results) == FALSE

\* if (results.length >= 5) break;
LimitReached(results) == Len(results) >= MaxResults

\* The for loop of searchPlayers from entry i on, results being the array so far.
RECURSIVE SearchLoop(_, _, _, _, _)
SearchLoop(entries, i, results, excludePlayerID, searchTerm) ==
    IF i > Len(entries) THEN results
    ELSE LET e == entries[i]
             lowerSearchTerm == ToLowerCase(searchTerm)
             playerName == ToLowerCase(NameOrEmpty(e.name))
             playerIDLower == ToLowerCase(e.playerID)
         IN
         IF e.playerID = excludePlayerID
         THEN SearchLoop(entries, i + 1, results, excludePlayerID, searchTerm)
         ELSE IF IsFourDigits(searchTerm) /\ e.playerID = searchTerm
         THEN SearchLoop(entries, i + 1, results, excludePlayerID, searchTerm)
         ELSE IF Includes(playerIDLower, lowerSearchTerm)
                 \/ Includes(playerName, lowerSearchTerm)
         THEN LET pushed == Append(results, [e EXCEPT !.name = NameOrEmpty(@)]) IN
              IF LimitReached(pushed) THEN pushed
              ELSE SearchLoop(entries, i + 1, pushed, excludePlayerID, searchTerm)
         ELSE SearchLoop(entries, i + 1, results, excludePlayerID, searchTerm)

\* searchPlayers(excludePlayerID, searchTerm) over the entries of clients in
\* insertion order; clients.get(searchTerm) is the entry with that key.
SearchPlayers(entries, excludePlayerID, searchTerm) ==
    LET exactMatch == SelectSeq(entries, LAMBDA e : e.playerID = searchTerm)
        first == IF /\ IsFourDigits(searchTerm)
                    /\ exactMatch # <<>>
                    /\ searchTerm # excludePlayerID
                 THEN <<[exactMatch[1] EXCEPT !.name = NameOrEmpty(@)]>>
                 ELSE <<>>
    IN SearchLoop(entries, 1, first, excludePlayerID, searchTerm)

\* The players array of the players:search_results reply: empty for an absent
\* or blank term, searchPlayers of the trimmed term otherwise.
SearchReply(entries, currentPlayerID, searchTerm) ==
    IF Falsy(searchTerm) \/ Falsy(Trim(searchTerm)) THEN <<>>
    ELSE SearchPlayers(entries, currentPlayerID, Trim(searchTerm))

\* clients.entries() for the keys in the order given; of an entry the model
\* keeps what the search reads and returns, but for the location.
Entries(cl, rs, nameOf, order) ==
    [k \in 1..Len(order) |->
        [playerID |-> order[k], name |-> nameOf[cl[order[k]]],
         isOnline |-> rs[cl[order[k]]] = "OPEN"]]

\* The orders in which a Map with these keys may have been filled.
Orders(keys) ==
    {o \in [1..Cardinality(keys) -> keys] : \A i, j \in DOMAIN o : o[i] = o[j] => i = j}

\* case 'players:search' with payload { searchTerm }, the registry having been
\* filled in the given order.
HandlePlayersSearch(w, searchTerm, order) ==
    /\ Receives(w)
    /\ order \in Orders(DOMAIN clients)
    /\ sent' = Send(clients, readyState, playerID[w], "players:search_results",
                    Undefined, Undefined,
                    SearchReply(Entries(clients, readyState, name, order),
                                playerID[w], searchTerm))
    /\ ev' = Ev("search", w, searchTerm, NoWs, FALSE)
    /\ UNCHANGED <<regVars, poolVars, issued, lastReq, ioFailed, rejected, announced, search>>

\* No call of searchPlayers is under study.
NoSearch ==
    [entries |-> <<>>, excludePlayerID |-> Undefined, searchTerm |-> Undefined,
     results |-> <<>>]

\* The players:search handler's computation applied, once, to the entries
\* under study, for a requester that is registered.
SearchApplied(currentPlayerID, searchTerm) ==
    /\ ev.op # "search"
    /\ \E i \in DOMAIN search.entries : search.entries[i].playerID = currentPlayerID
    /\ search' = [search EXCEPT !.excludePlayerID = currentPlayerID,
                                !.searchTerm = searchTerm,
                                !.results = SearchReply(search.entries, currentPlayerID,
                                                        searchTerm)]
    /\ ev' = Ev("search", NoWs, searchTerm, NoWs, FALSE)
    /\ sent' = {}
    /\ UNCHANGED <<regVars, poolVars, issued, lastReq, ioFailed, rejected, announced>>

Max(a, b) == IF a > b THEN a ELSE b

Min(a, b) == IF a < b THEN a ELSE b

\* d ms pass: Date.now() moves away from every recorded instant and every
\* timer comes closer to due (a due timer may still run late).  The history
\* variable announced is left to the specification that observes it.
Tick(d) ==
    /\ lastOnlineBroadcast' =
           [k \in {x \in DOMAIN lastOnlineBroadcast :
                      lastOnlineBroadcast[x] + d < ONLINE_BROADCAST_DEBOUNCE_MS}
              |-> lastOnlineBroadcast[k] + d]
    /\ timers' = {[t EXCEPT !.due = Max(t.due - d, 0)] : t \in timers}
    /\ sent' = {}
    /\ ev' = Ev("tick", NoWs, Undefined, NoWs, FALSE)
    /\ UNCHANGED <<readyState, wsToClient, playerID, name, opponentID, lastState,
                   location, clients, offlineTimers, poolVars,
                   issued, lastReq, ioFailed, rejected, search>>

\* ------------------------------------------------------------ specifications
\* The state after `new WSManager(server)`: no channel yet, loadUsedIDs waiting
\* for mkdir, and the durable file as an earlier run left it (stored).
Constructed(stored) ==
    /\ readyState = [w \in Sockets |-> "NEW"]
    /\ wsToClient = {}
    /\ playerID = FreshPlayerID
    /\ name = FreshName
    /\ opponentID = FreshField
    /\ lastState = FreshField
    /\ location = FreshField
    /\ clients = EmptyMap
    /\ offlineTimers = EmptyMap
    /\ timers = {}
    /\ lastOnlineBroadcast = EmptyMap
    /\ usedPlayerIDs = {}
    /\ savingPromise = FALSE
    /\ chained = 0
    /\ inflight = <<>>
    /\ file \in stored
    /\ tmp = Absent
    /\ loadPc = "mkdir"
    /\ ev = PoolEv("init")
    /\ sent = {}
    /\ issued = {}
    /\ lastReq = {}
    /\ ioFailed = FALSE
    /\ rejected = FALSE
    /\ announced = EmptyMap

InitWith(stored) == Constructed(stored) /\ search = NoSearch

Init == InitWith({Absent})

\* File operations are quick: no event is handled while loadUsedIDs or a save
\* is waiting for one.
Quiet == inflight = <<>> /\ loadPc = "done"

\* A client reports its state once it holds an identifier.
Registered(w) == ~StartsWithTemp(playerID[w])

\* Time passes only while some clock of the program is running.
TimePasses(d) ==
    /\ Tick(d)
    /\ <<lastOnlineBroadcast', timers'>> # <<lastOnlineBroadcast, timers>>
    /\ UNCHANGED announced

RequestId(w, id) == HandleRequestId(w, Undefined, id) /\ UNCHANGED announced

Reconnect(w, id) == HandleReconnect(w, id, Undefined) /\ UNCHANGED announced

\* The registry: channels, allocation, reconnection, closing, offline timers.
Next ==
    \/ \E w \in Sockets : Quiet /\ OnConnection(w)
    \/ \E w \in Sockets : Quiet /\ PeerCloses(w)
    \/ \E w \in Sockets : Quiet /\ OnClose(w)
    \/ \E w \in Sockets, k \in RandomIDs \cup {Undefined} : Quiet /\ OnCloseUnmapped(w, k)
    \/ \E t \in timers : Quiet /\ OfflineTimerFired(t)
    \/ Quiet /\ TimePasses(OFFLINE_DEBOUNCE_MS)
    \/ \E w \in Sockets, id \in RandomIDs : Quiet /\ RequestId(w, id)
    \/ \E w \in Sockets : Quiet /\ HandleRequestIdExhausted(w)
    \/ \E w \in Sockets, id \in PayloadIDs : Quiet /\ Reconnect(w, id)
    \/ \E w \in Sockets, id \in PayloadIDs : Quiet /\ HandleReconnectInvalid(w, id)
    \/ \E i \in DOMAIN inflight : SaveMkdirDone(i)
    \/ \E i \in DOMAIN inflight : SaveWriteTmpDone(i)
    \/ \E i \in DOMAIN inflight : SaveRenameDone(i)
    \/ LoadMkdirDone

Spec == Init /\ [][Next]_vars

\* Presence: clients that declare opponents and report state, close and
\* reconnect.
NextPresence ==
    \/ \E w \in Sockets : Quiet /\ OnConnection(w)
    \/ \E w \in Sockets : Quiet /\ PeerCloses(w)
    \/ \E w \in Sockets : Quiet /\ OnClose(w)
    \/ \E w \in Sockets, k \in RandomIDs \cup {Undefined} : Quiet /\ OnCloseUnmapped(w, k)
    \/ \E t \in timers : Quiet /\ OfflineTimerFired(t)
    \/ Quiet /\ TimePasses(OFFLINE_DEBOUNCE_MS)
    \/ \E w \in Sockets, id \in RandomIDs : Quiet /\ Reconnect(w, id)
    \/ \E w \in Sockets, o \in RandomIDs, t \in Totals :
          Quiet /\ Registered(w) /\ HandleStateUpdate(w, Undefined, Undefined, o, t)
    \/ \E i \in DOMAIN inflight : SaveMkdirDone(i)
    \/ \E i \in DOMAIN inflight : SaveWriteTmpDone(i)
    \/ \E i \in DOMAIN inflight : SaveRenameDone(i)
    \/ LoadMkdirDone

SpecPresence == Init /\ [][NextPresence]_vars

\* The opponent pid declares is bound with an open channel, another than
\* pid's own.
Reachable(cl, rs, oppOf, pid) ==
    /\ pid \in DOMAIN cl
    /\ OpponentChannel(cl, rs, oppOf, pid) \notin {NoWs, cl[pid]}

\* The record of a sendPlayerOnline(pid) call: the time since it, whether the
\* opponent was reachable, and whether player:online went out.
Announce(an, cl, rs, oppOf, pid, out) ==
    MapSet(an, pid, [gap |-> 0,
                     reachable |-> Reachable(cl, rs, oppOf, pid),
                     delivered |-> \E m \in out : m.type = "player:online"])

Aged(an, d) ==
    [k \in DOMAIN an |->
        [an[k] EXCEPT !.gap = Min(@ + d, ONLINE_BROADCAST_DEBOUNCE_MS)]]

\* Debouncing, at the granularity of TickMs, between clients that stay
\* connected and announce themselves again and again.
DebounceSockets == 1..NumDebounceWs

NextDebounce ==
    \/ \E w \in DebounceSockets : Quiet /\ OnConnection(w)
    \/ /\ Quiet
       /\ Tick(TickMs)
       /\ announced' = Aged(announced, TickMs)
       /\ <<lastOnlineBroadcast', timers', announced'>>
             # <<lastOnlineBroadcast, timers, announced>>
    \/ \E w \in DebounceSockets, id \in RandomIDs :
          /\ Quiet
          /\ HandleReconnect(w, id, Undefined)
          /\ announced' = Announce(announced, clients', readyState', opponentID', id, sent')
    \/ \E w \in DebounceSockets, o \in RandomIDs, t \in Totals :
          Quiet /\ Registered(w) /\ HandleStateUpdate(w, Undefined, Undefined, o, t)
    \/ \E i \in DOMAIN inflight : SaveMkdirDone(i)
    \/ \E i \in DOMAIN inflight : SaveWriteTmpDone(i)
    \/ \E i \in DOMAIN inflight : SaveRenameDone(i)
    \/ LoadMkdirDone

SpecDebounce == Init /\ [][NextDebounce]_vars

\* The identifiers a game event may name as the opponent, or none.
Targets == RandomIDs \cup {Undefined}

\* Pairing: game:start on a registry that channels join by player:reconnect
\* and leave by closing; offline timers stay pending.
NextPairing ==
    \/ \E w \in Sockets : Quiet /\ OnConnection(w)
    \/ \E w \in Sockets : Quiet /\ PeerCloses(w)
    \/ \E w \in Sockets : Quiet /\ OnClose(w)
    \/ \E w \in Sockets, key \in RandomIDs \cup {Undefined} : Quiet /\ OnCloseUnmapped(w, key)
    \/ \E w \in Sockets, id \in RandomIDs : Quiet /\ Reconnect(w, id)
    \/ \E w \in Sockets, o \in Targets : Quiet /\ HandleGameStart(w, o)
    \/ \E i \in DOMAIN inflight : SaveMkdirDone(i)
    \/ \E i \in DOMAIN inflight : SaveWriteTmpDone(i)
    \/ \E i \in DOMAIN inflight : SaveRenameDone(i)
    \/ LoadMkdirDone

SpecPairing == Init /\ [][NextPairing]_vars

\* Forwarding: the game events relayed to a named opponent, on the same
\* registry.
NextForward ==
    \/ \E w \in Sockets : Quiet /\ OnConnection(w)
    \/ \E w \in Sockets : Quiet /\ PeerCloses(w)
    \/ \E w \in Sockets : Quiet /\ OnClose(w)
    \/ \E w \in Sockets, key \in RandomIDs \cup {Undefined} : Quiet /\ OnCloseUnmapped(w, key)
    \/ \E w \in Sockets, id \in RandomIDs : Quiet /\ Reconnect(w, id)
    \/ \E w \in Sockets, o \in Targets, sc \in Scores : Quiet /\ HandleScoreUpdate(w, o, sc)
    \/ \E w \in Sockets, type \in ForwardedTypes, o \in Targets :
          \E v \in ForwardedValues(type) : Quiet /\ HandleForward(w, type, o, v)
    \/ \E w \in Sockets, o \in Targets, t \in Totals : Quiet /\ HandleApplyPoints(w, o, <<t>>)
    \/ \E w \in Sockets, kind \in IgnoredKinds : Quiet /\ HandleIgnored(w, kind)
    \/ \E i \in DOMAIN inflight : SaveMkdirDone(i)
    \/ \E i \in DOMAIN inflight : SaveWriteTmpDone(i)
    \/ \E i \in DOMAIN inflight : SaveRenameDone(i)
    \/ LoadMkdirDone

SpecForward == Init /\ [][NextForward]_vars

\* The search terms sent in the specification of the directory.
DirectoryTerms == {Undefined, NumToString(RandomBase), <<"0">>}

\* The directory: players:get_all and players:search on the same registry.
NextDirectory ==
    \/ \E w \in Sockets : Quiet /\ OnConnection(w)
    \/ \E w \in Sockets : Quiet /\ PeerCloses(w)
    \/ \E w \in Sockets : Quiet /\ OnClose(w)
    \/ \E w \in Sockets, key \in RandomIDs \cup {Undefined} : Quiet /\ OnCloseUnmapped(w, key)
    \/ \E w \in Sockets, id \in RandomIDs : Quiet /\ Reconnect(w, id)
    \/ \E w \in Sockets : Quiet /\ HandleGetAll(w)
    \/ \E w \in Sockets, t \in DirectoryTerms :
          \E o \in Orders(DOMAIN clients) : Quiet /\ HandlePlayersSearch(w, t, o)
    \/ \E i \in DOMAIN inflight : SaveMkdirDone(i)
    \/ \E i \in DOMAIN inflight : SaveWriteTmpDone(i)
    \/ \E i \in DOMAIN inflight : SaveRenameDone(i)
    \/ LoadMkdirDone

SpecDirectory == Init /\ [][NextDirectory]_vars

\* Number of channels in the specification of the state snapshots.
NumSnapshotWs == 2

SnapshotSockets == 1..NumSnapshotWs

\* The names and locations a player:state_update may carry, or none.
SnapshotNames == {Undefined, <<"A", "n", "n">>}

SnapshotLocations == {Undefined, <<"4", "1", "N">>}

\* State snapshots: player:state_update with every combination of optional
\* fields, from bound channels and channels still on their placeholder.
NextSnapshot ==
    \/ \E w \in SnapshotSockets : Quiet /\ OnConnection(w)
    \/ \E w \in SnapshotSockets : Quiet /\ PeerCloses(w)
    \/ \E w \in SnapshotSockets : Quiet /\ OnClose(w)
    \/ \E w \in SnapshotSockets, id \in RandomIDs : Quiet /\ Reconnect(w, id)
    \/ \E w \in SnapshotSockets, n \in SnapshotNames, l \in SnapshotLocations :
          \E o \in Targets, t \in Totals : Quiet /\ HandleStateUpdate(w, n, l, o, t)
    \/ \E i \in DOMAIN inflight : SaveMkdirDone(i)
    \/ \E i \in DOMAIN inflight : SaveWriteTmpDone(i)
    \/ \E i \in DOMAIN inflight : SaveRenameDone(i)
    \/ LoadMkdirDone

SpecSnapshot == Init /\ [][NextSnapshot]_vars

\* Number of channels in the specification of the unbinding.
NumUnbindWs == 2

UnbindSockets == 1..NumUnbindWs

\* Unbinding: channels bind, close and reconnect; time passes and the offline
\* timers fire.
NextUnbind ==
    \/ \E w \in UnbindSockets : Quiet /\ OnConnection(w)
    \/ \E w \in UnbindSockets : Quiet /\ PeerCloses(w)
    \/ \E w \in UnbindSockets : Quiet /\ OnClose(w)
    \/ \E w \in UnbindSockets, key \in RandomIDs \cup {Undefined} :
          Quiet /\ OnCloseUnmapped(w, key)
    \/ \E t \in timers : Quiet /\ OfflineTimerFired(t)
    \/ Quiet /\ TimePasses(OFFLINE_DEBOUNCE_MS)
    \/ \E w \in UnbindSockets, id \in RandomIDs : Quiet /\ Reconnect(w, id)
    \/ \E i \in DOMAIN inflight : SaveMkdirDone(i)
    \/ \E i \in DOMAIN inflight : SaveWriteTmpDone(i)
    \/ \E i \in DOMAIN inflight : SaveRenameDone(i)
    \/ LoadMkdirDone

\* The event loop runs the 'close' event of every closing channel and the
\* callback of every due timer, however many other events arrive; time passes
\* while a timer is pending, and file operations complete.
FairUnbind ==
    /\ \A w \in UnbindSockets : SF_vars(Quiet /\ OnClose(w))
    /\ \A w \in UnbindSockets :
          SF_vars(\E key \in RandomIDs \cup {Undefined} : Quiet /\ OnCloseUnmapped(w, key))
    /\ \A id \in RandomIDs :
          SF_vars(\E t \in timers : t.pid = id /\ Quiet /\ OfflineTimerFired(t))
    /\ SF_vars(Quiet /\ TimePasses(OFFLINE_DEBOUNCE_MS))
    /\ WF_vars(\E i \in DOMAIN inflight : SaveMkdirDone(i))
    /\ WF_vars(\E i \in DOMAIN inflight : SaveWriteTmpDone(i))
    /\ WF_vars(\E i \in DOMAIN inflight : SaveRenameDone(i))
    /\ WF_vars(LoadMkdirDone)

SpecUnbind == Init /\ [][NextUnbind]_vars /\ FairUnbind

\* The players the specification of the search registers, each under its
\* name: names in either case, names and identifiers that contain other
\* identifiers.
Directory ==
    << [playerID |-> NumToString(1000), name |-> <<"A", "n", "n">>, isOnline |-> TRUE],
       [playerID |-> NumToString(1001),
        name |-> <<"A", "N", "N", "A", " ">> \o NumToString(1000), isOnline |-> TRUE],
       [playerID |-> NumToString(1010), name |-> DefaultName(NumToString(1010)),
        isOnline |-> TRUE],
       [playerID |-> NumToString(1100), name |-> <<"f", "a", "n">> \o NumToString(1000),
        isOnline |-> FALSE],
       [playerID |-> NumToString(2100), name |-> NumToString(1000) \o <<"x">>,
        isOnline |-> TRUE],
       [playerID |-> NumToString(3331), name |-> <<"B", "o", "b", " ">> \o NumToString(1000),
        isOnline |-> TRUE],
       [playerID |-> NumToString(5551), name |-> <<"n", "o", "t">> \o NumToString(1000),
        isOnline |-> TRUE] >>

\* The registry contents: up to MaxEntries players of Directory, in any
\* insertion order.
EntryLists ==
    UNION { { [k \in 1..n |-> Directory[o[k]]] :
                o \in {f \in [1..n -> DOMAIN Directory] :
                          \A i, j \in 1..n : f[i] = f[j] => i = j} } :
            n \in 0..Min(MaxEntries, Len(Directory)) }

\* The sessions that search.
SearchRequesters == {NumToString(1000), NumToString(1010)}

\* The terms searched for: none, blank, an identifier, padded, part of
\* identifiers, part of names in upper case.
SearchTerms ==
    { Undefined, <<" ", " ">>, NumToString(1000), <<" ", "1", " ">>, <<"3", "3">>,
      <<"A", "N">> }

InitSearch ==
    /\ Constructed({Absent})
    /\ search \in {[NoSearch EXCEPT !.entries = l] : l \in EntryLists}

\* searchPlayers on its own: every registry content of EntryLists, every
\* registered requester, every term.
NextSearch ==
    \E id \in SearchRequesters, t \in SearchTerms : SearchApplied(id, t)

SpecSearch == InitSearch /\ [][NextSearch]_vars

\* The identifier pool: allocation and reconnection against the startup load
\* and the saves, every file operation free to succeed or fail and to take
\* any time.  The durable file starts absent, empty, or holding an identifier
\* of an earlier run.
PoolSockets == 1..NumPoolWs

InitPool == InitWith({Absent, Stored({}), Stored({NumToString(RandomBase)})})

NextPool ==
    \/ \E w \in PoolSockets : OnConnection(w)
    \/ \E w \in PoolSockets, id \in RandomIDs : RequestId(w, id)
    \/ \E w \in PoolSockets, id \in RandomIDs : Reconnect(w, id)
    \/ LoadMkdirDone
    \/ LoadReadDone
    \/ \E i \in DOMAIN inflight : SaveMkdirDone(i)
    \/ \E i \in DOMAIN inflight : SaveMkdirFail(i)
    \/ \E i \in DOMAIN inflight : SaveWriteTmpDone(i)
    \/ \E i \in DOMAIN inflight : SaveWriteTmpFail(i)
    \/ \E i \in DOMAIN inflight : SaveDirectAfterWriteDone(i)
    \/ \E i \in DOMAIN inflight : SaveDirectAfterWriteFail(i)
    \/ \E i \in DOMAIN inflight : SaveRenameDone(i)
    \/ \E i \in DOMAIN inflight : SaveRenameFail(i)
    \/ \E i \in DOMAIN inflight : SaveDirectAfterRenameDone(i)
    \/ \E i \in DOMAIN inflight : SaveDirectAfterRenameFail(i)
    \/ \E i \in DOMAIN inflight : SaveUnlinkDone(i)

SpecPool == InitPool /\ [][NextPool]_vars

\* --------------------------------------------------------------- properties
IsBind(e) == e.op \in {"request_id", "reconnect"}

\* The channels tracked as live that carry 4-digit identifier id.
LiveHolders(id) == {w \in wsToClient : playerID[w] = id}

\* C1 (uniqueness): no two channels present in wsToClient carry the same
\* 4-digit identifier, and a player:request_id or player:reconnect that binds
\* an identifier held by another channel removes that channel from wsToClient,
\* closes it, and makes the new channel the holder.
C1_Uniqueness ==
    /\ [](\A w \in wsToClient :
            IsFourDigits(playerID[w]) => LiveHolders(playerID[w]) = {w})
    /\ [][IsBind(ev') /\ ev'.pid \in DOMAIN clients /\ clients[ev'.pid] # ev'.ws
            => /\ clients[ev'.pid] \notin wsToClient'
               /\ readyState'[clients[ev'.pid]] # "OPEN"
               /\ clients'[ev'.pid] = ev'.ws
               /\ {w \in wsToClient' : playerID'[w] = ev'.pid} = {ev'.ws}]_vars

\* C1's case: a bind has just replaced a holder whose channel was open.
C1_Witness ==
    /\ IsBind(ev)
    /\ ev.other # NoWs
    /\ readyState[ev.other] = "CLOSING"
    /\ ev.other \notin wsToClient
    /\ LiveHolders(ev.pid) = {ev.ws}

\* The presence messages about identifier id among the messages out.
Presence(out, type, id) == {m \in out : m.type = type /\ m.playerID = id}

\* C2 (offline notification): when the offline timer of S expires, S is removed
\* from the registry and, if the opponent S declared is bound with an open
\* channel at that moment, that channel receives player:offline naming S.
C2_OfflineNotification ==
    [][ev'.op = "offline_timer"
         => /\ ev'.pid \notin DOMAIN clients'
            /\ LET o == OpponentChannel(clients, readyState, opponentID, ev'.pid) IN
               o # NoWs => \E m \in Presence(sent', "player:offline", ev'.pid) : m.to = o
       ]_vars

\* C3 (resume on reconnect): S reported a state and declared opponent O, its
\* channel closed, and player:reconnect for S arrives on a new channel while
\* the offline timer is pending and O is bound and open: O receives
\* game:resume carrying the state S reported.
C3_ResumeOnReconnect ==
    [][/\ ev'.op = "reconnect"
       /\ ev'.pid \in DOMAIN offlineTimers
       /\ ev'.pid \in DOMAIN clients
       /\ clients[ev'.pid] # ev'.ws
       /\ ~Falsy(lastState[clients[ev'.pid]])
       /\ OpponentChannel(clients, readyState, opponentID, ev'.pid)
             \notin {NoWs, ev'.ws}
       => \E m \in sent' :
             /\ m.type = "game:resume"
             /\ m.to = OpponentChannel(clients, readyState, opponentID, ev'.pid)
             /\ m.playerID = ev'.pid
             /\ m.state = lastState[clients[ev'.pid]]
      ]_vars

\* C4 (offline suppression): a player:reconnect for S handled while the
\* offline timer of S is pending cancels the timer, so that no timer for S
\* stays scheduled; S is in the registry as long as its timer is pending and
\* after the reconnect; no timer runs that the registry has forgotten; and the
\* reconnect sends no player:offline.
C4_OfflineSuppression ==
    /\ [](/\ \A id \in DOMAIN offlineTimers : id \in DOMAIN clients
          /\ \A t \in timers :
                t.pid \in DOMAIN offlineTimers /\ offlineTimers[t.pid] = t.h)
    /\ [][ev'.op = "reconnect" /\ ev'.pid \in DOMAIN offlineTimers
            => /\ ev'.pid \notin DOMAIN offlineTimers'
               /\ \A t \in timers' : t.pid # ev'.pid
               /\ ev'.pid \in DOMAIN clients'
               /\ \A m \in sent' : m.type # "player:offline"]_vars

\* C4's case: S reconnected on a new channel while its offline timer was
\* pending, an open channel having declared S its opponent.
C4_Witness ==
    /\ ev.op = "reconnect"
    /\ ev.flag
    /\ ev.other # NoWs
    /\ ev.pid \in DOMAIN clients
    /\ ev.pid \notin DOMAIN offlineTimers
    /\ \E w \in wsToClient : readyState[w] = "OPEN" /\ opponentID[w] = ev.pid

\* C6 (no broadcast of presence): the messages of a step hold at most one
\* player:online and at most one player:offline about an identifier S, and it
\* goes to the open channel bound to the opponent S declares (for
\* player:online after the bind, for player:offline when the timer expires).
C6_NoPresenceBroadcast ==
    [][\A m \in sent' :
          /\ m.type = "player:online"
               => /\ Presence(sent', "player:online", m.playerID) = {m}
                  /\ m.to = OpponentChannel(clients', readyState', opponentID',
                                            m.playerID)
          /\ m.type = "player:offline"
               => /\ Presence(sent', "player:offline", m.playerID) = {m}
                  /\ m.to = OpponentChannel(clients, readyState, opponentID,
                                            m.playerID)
      ]_vars

\* C6's case: player:online about S went to its opponent while a third
\* channel was open, which got nothing.
C6_Witness ==
    \E m \in sent :
       /\ m.type = "player:online"
       /\ m.playerID = ev.pid
       /\ m.to # ev.ws
       /\ \E w \in wsToClient :
             /\ readyState[w] = "OPEN"
             /\ w \notin {m.to, ev.ws}
             /\ \A n \in sent : n.to # w

\* C8 (allocation freshness): the identifier player:request_id assigns was, when
\* the request was handled, neither in usedPlayerIDs nor a key of clients, is
\* in usedPlayerIDs afterwards, and was never assigned before.
C8_AllocationFreshness ==
    [][ev'.op = "request_id"
         => /\ ev'.pid \notin usedPlayerIDs
            /\ ev'.pid \notin DOMAIN clients
            /\ ev'.pid \in usedPlayerIDs'
            /\ ev'.pid \notin issued
            /\ \E m \in sent' : m.type = "player:id_assigned" /\ m.playerID = ev'.pid
       ]_vars

\* C8's case: an identifier was assigned while an identifier assigned earlier
\* had already left the registry, so that only usedPlayerIDs remembers it.
C8_Witness ==
    /\ ev.op = "request_id"
    /\ ev.pid \in issued
    /\ \E id \in issued : id # ev.pid /\ id \notin DOMAIN clients

\* The step makes a sendPlayerOnline(S) call that finds the opponent of S
\* reachable, and so did the call for S before it.
SecondAnnouncement ==
    /\ ev'.op = "reconnect"
    /\ ev'.pid \in DOMAIN announced
    /\ announced[ev'.pid].reachable
    /\ Reachable(clients', readyState', opponentID', ev'.pid)

\* The number of player:online messages the two calls delivered.
DeliveredByTwo ==
    (IF announced[ev'.pid].delivered THEN 1 ELSE 0)
      + Cardinality(Presence(sent', "player:online", ev'.pid))

\* C5 (online debounce) as the specification states it: two consecutive
\* announcements for S, the opponent reachable at both, deliver exactly one
\* player:online when less than 1500 ms apart and two when at least 1500 ms
\* apart.
C5_OnlineDebounce ==
    [][SecondAnnouncement
         => IF announced[ev'.pid].gap < ONLINE_BROADCAST_DEBOUNCE_MS
            THEN DeliveredByTwo = 1
            ELSE DeliveredByTwo = 2]_vars

\* C5 (online debounce) as the code has it: the window runs from the last
\* announcement that was not suppressed, whether or not it reached anyone.
\* An announcement for S is delivered exactly when lastOnlineBroadcast holds no
\* instant for S less than 1500 ms old; so two consecutive announcements less
\* than 1500 ms apart deliver at most one player:online, and exactly one if the
\* first was delivered; of two at least 1500 ms apart the second is delivered,
\* which makes two if the first was.
C5_OnlineDebounceAmended ==
    [][SecondAnnouncement
         => /\ Presence(sent', "player:online", ev'.pid) # {}
                <=> SinceLastOnline(lastOnlineBroadcast, ev'.pid)
                       >= ONLINE_BROADCAST_DEBOUNCE_MS
            /\ IF announced[ev'.pid].gap < ONLINE_BROADCAST_DEBOUNCE_MS
               THEN /\ DeliveredByTwo <= 1
                    /\ announced[ev'.pid].delivered => DeliveredByTwo = 1
               ELSE /\ Presence(sent', "player:online", ev'.pid) # {}
                    /\ announced[ev'.pid].delivered => DeliveredByTwo = 2
       ]_vars

\* C5's case: the opponent reachable, an announcement for S was suppressed
\* 1000 ms after the announcement for S that opened the window.
C5_Witness ==
    /\ ev.op = "reconnect"
    /\ ev.pid \in DOMAIN announced
    /\ announced[ev.pid].gap = 0
    /\ announced[ev.pid].reachable
    /\ ~announced[ev.pid].delivered
    /\ ev.pid \in DOMAIN lastOnlineBroadcast
    /\ lastOnlineBroadcast[ev.pid] = 2 * TickMs

\* C7 (startup ordering): no player:request_id is served an identifier that
\* the durable file holds.
C7_StartupOrdering ==
    [][ev'.op = "request_id" => ev'.pid \notin file.ids]_vars

\* No save is running or queued.
SavesDone == inflight = <<>> /\ chained = 0

\* C9 (serialized persistence): at most one save body is in progress at any
\* instant, and when every save has completed and no file operation has
\* failed, the durable file holds every identifier that was in usedPlayerIDs
\* when saveUsedIDs was last called.
C9_SerializedPersistence ==
    /\ Len(inflight) <= 1
    /\ SavesDone /\ ~ioFailed /\ lastReq # {} => file.exists /\ lastReq \subseteq file.ids

\* C9's case: a save is about to rename a snapshot that lacks an identifier,
\* and the saveUsedIDs call made for that identifier is chained behind it.
C9_Witness ==
    /\ Len(inflight) = 1
    /\ inflight[1].pc = "rename"
    /\ chained = 1
    /\ ~ioFailed
    /\ ~(lastReq \subseteq inflight[1].data)

\* C10 (persistence failure handling): a failed temp write or rename is
\* followed by a direct write of the current set to the durable file; no step
\* of a save, failed or not, rejects the promise of saveUsedIDs or sends a
\* message; and savingPromise is set exactly while a save body is in progress,
\* so that it is clear once the saves are over.
C10_PersistFailureHandling ==
    /\ [](~rejected /\ (savingPromise <=> inflight # <<>>))
    /\ [][/\ ev'.op \in {"save", "save_fail", "save_fallback_fail"} => sent' = {}
          /\ \A i \in DOMAIN inflight :
                /\ ev'.op = "save_fail"
                /\ inflight[i].pc \in {"writeTmp", "rename"}
                => /\ i \in DOMAIN inflight'
                   /\ inflight'[i].pc \in {"directAfterWrite", "directAfterRename"}
                   /\ inflight'[i].data = usedPlayerIDs
                   /\ file' = file
         ]_vars

\* C10's case: the temp write or the rename failed, the direct write failed
\* too, and the save is over with savingPromise clear.
C10_Witness ==
    /\ ev.op = "save_fallback_fail"
    /\ inflight = <<>>
    /\ ~savingPromise
    /\ ~rejected

\* The strings that match ^\d{4}$, written out as a set.
FourDigitStrings == [1..4 -> Digits]

IsReconnect(e) == e.op \in {"reconnect", "reconnect_invalid"}

\* C13 (invalid reconnect): a player:reconnect whose payload identifier is
\* absent or does not match ^\d{4}$ is answered with player:invalid_id, to the
\* sender only, and changes nothing: identities, registry, known identifiers,
\* timers, and the state of every channel stay as they were.
C13_InvalidReconnect ==
    [][IsReconnect(ev') /\ ev'.pid \notin FourDigitStrings
         => /\ ev'.op = "reconnect_invalid"
            /\ \E m \in sent' : m.type = "player:invalid_id" /\ m.to = ev'.ws
            /\ \A m \in sent' : m.type = "player:invalid_id" /\ m.to = ev'.ws
            /\ UNCHANGED <<regVars, poolVars>>
       ]_vars

\* C13's case: a channel that holds an identifier, another channel being
\* bound too, presented a malformed identifier and was answered.
C13_Witness ==
    /\ ev.op = "reconnect_invalid"
    /\ ev.pid # Undefined
    /\ IsFourDigits(playerID[ev.ws])
    /\ clients[playerID[ev.ws]] = ev.ws
    /\ \E m \in sent : m.type = "player:invalid_id" /\ m.to = ev.ws
    /\ \E id \in DOMAIN clients : clients[id] # ev.ws

\* C14 (reconnect acceptance): a player:reconnect whose payload identifier
\* matches ^\d{4}$ is accepted whatever the state of that identifier:
\* afterwards the registry maps it to the sending channel, which carries it,
\* it is in usedPlayerIDs, and the sender was sent player:reconnected with it.
C14_ReconnectAcceptance ==
    [][IsReconnect(ev') /\ ev'.pid \in FourDigitStrings
         => /\ ev'.op = "reconnect"
            /\ ev'.pid \in DOMAIN clients'
            /\ clients'[ev'.pid] = ev'.ws
            /\ playerID'[ev'.ws] = ev'.pid
            /\ ev'.ws \in wsToClient'
            /\ ev'.pid \in usedPlayerIDs'
            /\ \E m \in sent' : /\ m.type = "player:reconnected"
                                /\ m.to = ev'.ws
                                /\ m.playerID = ev'.pid
       ]_vars

\* C14's case: a channel was accepted with an identifier the server never
\* assigned and that no channel held.
C14_Witness ==
    /\ ev.op = "reconnect"
    /\ ev.pid \notin issued
    /\ ev.other = NoWs
    /\ ~ev.flag
    /\ clients[ev.pid] = ev.ws
    /\ issued # {}

IsClose(e) == e.op \in {"close", "close_unmapped"}

\* Channel w is the session bound to an identifier: it carries an identifier
\* that is no placeholder and the registry maps that identifier to it.
Bound(w) ==
    /\ ~StartsWithTemp(playerID[w])
    /\ playerID[w] \in DOMAIN clients
    /\ clients[playerID[w]] = w

\* C15 (close handling): a 'close' event schedules an offline timer for
\* identifier X if and only if the closed channel holds the bound identifier X
\* and the registry entry for X points at that channel; in every other case
\* (placeholder identity, channel already replaced) no timer is scheduled; the
\* registry is never changed by the event.
C15_CloseHandling ==
    [][IsClose(ev')
         => /\ \A t \in timers' \ timers :
                  Bound(ev'.ws) /\ t.pid = playerID[ev'.ws]
            /\ Bound(ev'.ws) => \E t \in timers' \ timers : t.pid = playerID[ev'.ws]
            /\ clients' = clients
       ]_vars

\* game:auto_joined to channel w, carrying a player's identifier and name.
AutoJoined(rs, w, id, nm) ==
    IF rs[w] = "OPEN" THEN {Msg(w, "game:auto_joined", id, nm, Undefined)} ELSE {}

\* C11 (start-pairing): when the bound session S sends game:start naming O,
\* O different from S and present in the registry, the step leaves S's
\* opponent pointer at O and O's at S, sends game:auto_joined to S with O's
\* identifier and name and to O with S's (each if its channel is open) and
\* nothing else, and changes no other session's opponent pointer.
C11_StartPairing ==
    [][(/\ ev'.op = "game_start"
        /\ Bound(ev'.ws)
        /\ ev'.pid # playerID[ev'.ws]
        /\ ev'.pid \in DOMAIN clients)
         => LET S == ev'.ws
                O == clients[ev'.pid]
            IN
            /\ opponentID'[S] = ev'.pid
            /\ opponentID'[O] = playerID[S]
            /\ \A v \in Sockets \ {S, O} : opponentID'[v] = opponentID[v]
            /\ sent' = AutoJoined(readyState, S, ev'.pid, name[O])
                       \cup AutoJoined(readyState, O, playerID[S], name[S])
       ]_vars

\* C12 (start-pairing rejection): a game:start without opponentID, or naming
\* the sender's own identifier, is answered with game:error to the sender and
\* nothing else is sent; no opponent pointer, registry entry, timer, pool or
\* channel state changes, so the sender's channel stays open.
C12_StartRejection ==
    [][ev'.op = "game_start" /\ (ev'.pid = Undefined \/ ev'.pid = playerID[ev'.ws])
         => /\ sent' = {Msg(ev'.ws, "game:error", Undefined, Undefined, Undefined)}
            /\ UNCHANGED <<regVars, poolVars>>
            /\ readyState'[ev'.ws] = "OPEN"
       ]_vars

\* C12's case: a bound session named itself while another session was bound
\* and open, and was answered game:error.
C12_Witness ==
    /\ ev.op = "game_start"
    /\ Bound(ev.ws)
    /\ ev.pid = playerID[ev.ws]
    /\ \E m \in sent : m.type = "game:error" /\ m.to = ev.ws
    /\ \E v \in Sockets \ {ev.ws} : Bound(v) /\ readyState[v] = "OPEN"

\* C16 (apply-points forwarding): when the bound session S sends
\* game:apply_points naming O, O different from S and registered with an open
\* channel of its own, O's channel is sent game:apply_points carrying S's
\* identifier.
C16_ApplyPointsForwarding ==
    [][(/\ ev'.op = "game:apply_points"
        /\ Bound(ev'.ws)
        /\ ev'.pid # playerID[ev'.ws]
        /\ IsOpen(clients, readyState, ev'.pid)
        /\ clients[ev'.pid] # ev'.ws)
         => \E m \in sent' : /\ m.to = clients[ev'.pid]
                             /\ m.type = "game:apply_points"
                             /\ m.playerID = playerID[ev'.ws]
       ]_vars

\* C17 (guarded forwarding): game:apply_brisks, game:opponent_undo and
\* game:reset are delivered as exactly one message, to the channel registered
\* under the opponent O the payload names, with the sender's identifier as
\* from, when O is present, is not the sender's identifier and is registered
\* with an open channel; otherwise nothing is sent.  The registry, the
\* ClientInfo objects, the timers and the pool never change.
C17_GuardedForwarding ==
    [][ev'.op \in ForwardedTypes
         => /\ IF /\ ev'.pid # Undefined
                  /\ ev'.pid # playerID[ev'.ws]
                  /\ IsOpen(clients, readyState, ev'.pid)
               THEN \E m \in sent' : /\ sent' = {m}
                                     /\ m.to = clients[ev'.pid]
                                     /\ m.type = ev'.op
                                     /\ m.playerID = playerID[ev'.ws]
               ELSE sent' = {}
            /\ UNCHANGED <<regVars, poolVars>>
       ]_vars

\* C17's case: a bound session's event was forwarded to its opponent while a
\* third bound channel, open, received nothing.
C17_Witness ==
    /\ ev.op \in ForwardedTypes
    /\ Bound(ev.ws)
    /\ \E m \in sent : m.type = ev.op /\ m.to # ev.ws /\ m.playerID = playerID[ev.ws]
    /\ \E v \in Sockets : /\ readyState[v] = "OPEN"
                          /\ v \in wsToClient
                          /\ \A m \in sent : m.to # v

\* C18 (score forwarding): game:score_update naming O sends
\* game:opponent_scored, with the score (0 if the payload has none) and the
\* sender's identifier, to O's channel if and only if O is registered with an
\* open channel; otherwise nothing is sent.  No other channel is sent
\* anything and no state changes.
C18_ScoreForwarding ==
    [][ev'.op = "score_update"
         => /\ IF IsOpen(clients, readyState, ev'.pid)
               THEN \E m \in sent' :
                       /\ sent' = {m}
                       /\ m.to = clients[ev'.pid]
                       /\ m.type = "game:opponent_scored"
                       /\ m.playerID = playerID[ev'.ws]
                       /\ IF ev'.flag THEN m.state = <<0>>
                          ELSE m.state \in {<<t>> : t \in Totals}
               ELSE sent' = {}
            /\ UNCHANGED <<regVars, poolVars>>
       ]_vars

\* C18's case: a bound session's score was delivered to the opponent's
\* channel while a third channel, open, received nothing.
C18_Witness ==
    /\ ev.op = "score_update"
    /\ ~ev.flag
    /\ Bound(ev.ws)
    /\ \E m \in sent : m.type = "game:opponent_scored" /\ m.to # ev.ws
    /\ \E v \in Sockets \ {ev.ws} : readyState[v] = "OPEN" /\ \A m \in sent : m.to # v

\* C19 (list-all-players): the reply to players:get_all from the bound
\* session S is one players:list message to S whose entries are exactly the
\* registered identifiers, other than S's, whose channel is open; a session
\* whose channel has closed is not listed.
C19_ListAllPlayers ==
    [][ev'.op = "get_all" /\ Bound(ev'.ws)
         => \E m \in sent' :
               /\ sent' = {m}
               /\ m.to = ev'.ws
               /\ m.type = "players:list"
               /\ {e.playerID : e \in m.state}
                     = {id \in DOMAIN clients \ {playerID[ev'.ws]} :
                           readyState[clients[id]] = "OPEN"}
       ]_vars

\* The entries of the registry under study that the trimmed term matches,
\* the requester's left out.
Matching ==
    {i \in DOMAIN search.entries :
        /\ search.entries[i].playerID # search.excludePlayerID
        /\ \/ Includes(search.entries[i].playerID, ToLowerCase(Trim(search.searchTerm)))
           \/ Includes(ToLowerCase(search.entries[i].name),
                       ToLowerCase(Trim(search.searchTerm)))}

C21_SnapshotNotForwarded ==
    [][ev'.op = "state_update"
         => /\ sent' = {}
            /\ \A v \in Sockets \ {ev'.ws} :
                  /\ name'[v] = name[v]
                  /\ location'[v] = location[v]
                  /\ opponentID'[v] = opponentID[v]
                  /\ lastState'[v] = lastState[v]
            /\ opponentID'[ev'.ws] = IF ev'.pid = Undefined THEN opponentID[ev'.ws]
                                     ELSE ev'.pid
            /\ lastState'[ev'.ws] \in {<<t>> : t \in Totals}
            /\ UNCHANGED <<readyState, wsToClient, playerID, clients, offlineTimers,
                           timers, lastOnlineBroadcast, poolVars>>
       ]_vars

\* C21's case: a bound session reported its state with a new name and
\* location, naming as opponent the identifier of another bound, open session
\* whose own opponent pointer stayed unset.
C21_Witness ==
    /\ ev.op = "state_update"
    /\ Bound(ev.ws)
    /\ name[ev.ws] \in SnapshotNames
    /\ location[ev.ws] # Undefined
    /\ opponentID[ev.ws] = ev.pid
    /\ IsOpen(clients, readyState, ev.pid)
    /\ clients[ev.pid] # ev.ws
    /\ opponentID[clients[ev.pid]] = Undefined
    /\ lastState[ev.ws] # Undefined

\* C22 (allocation exhaustion): a player:request_id for which no fresh
\* identifier is found leaves the requesting channel's identity, the registry,
\* usedPlayerIDs, the durable file, the timers and every channel as they were,
\* sends nothing, and every channel that could have a message handled before
\* still can.
C22_AllocationExhaustion ==
    [][ev'.op = "request_id_failed"
         => /\ UNCHANGED <<regVars, poolVars>>
            /\ sent' = {}
            /\ \A v \in Sockets : Receives(v) => Receives(v)'
            /\ readyState'[ev'.ws] = "OPEN" /\ ev'.ws \in wsToClient'
       ]_vars

\* C22's case: the allocation failed for a channel on its placeholder while
\* another channel was bound and open and an identifier was already known.
C22_Witness ==
    /\ ev.op = "request_id_failed"
    /\ StartsWithTemp(playerID[ev.ws])
    /\ usedPlayerIDs # {}
    /\ \E v \in Sockets \ {ev.ws} : Bound(v) /\ Receives(v)

\* C23 (unknown or malformed input has no effect): an input that is not
\* valid JSON, or whose type is none of the recognized kinds, changes no
\* ClientInfo, registry entry, timer or known identifier, sends nothing, and
\* leaves the sending channel open and in wsToClient.
C23_IgnoredInput ==
    [][ev'.op \in IgnoredKinds
         => /\ UNCHANGED <<regVars, poolVars>>
            /\ sent' = {}
            /\ readyState'[ev'.ws] = "OPEN" /\ ev'.ws \in wsToClient'
       ]_vars

\* C23's case: malformed data arrived on a bound channel while another bound
\* channel was open and a third channel had closed.
C23_Witness ==
    /\ ev.op = "malformed"
    /\ Bound(ev.ws)
    /\ \E v \in Sockets \ {ev.ws} : Bound(v) /\ Receives(v)
    /\ \E v \in Sockets : readyState[v] \in {"CLOSING", "CLOSED"}

\* C24 (start-pairing requires a bound sender): a game:start from a channel
\* still on its placeholder identity changes no bound session's opponent
\* pointer and sends nothing to any bound session.
C24_StartNeedsBoundSender ==
    [][ev'.op = "game_start" /\ StartsWithTemp(playerID[ev'.ws])
         => /\ \A v \in Sockets : Bound(v) => opponentID'[v] = opponentID[v]
            /\ \A m \in sent' : ~Bound(m.to)
       ]_vars

\* C25 (registry consistency): in every reachable state each key of the
\* registry maps to a session whose own identifier is that key, so that no
\* channel is registered under two identifiers.
C25_RegistryConsistency ==
    \A id \in DOMAIN clients : playerID[clients[id]] = id

\* C26 (eventual unbind): an identifier registered to a channel that has
\* closed is eventually either no longer in the registry (isOnline false) or
\* registered to a channel that is not closed (a reconnect presented it); no
\* registry entry with a closed channel persists.
C26_EventualUnbind ==
    \A id \in RandomIDs :
        (id \in DOMAIN clients /\ readyState[clients[id]] = "CLOSED")
          ~> (id \notin DOMAIN clients \/ readyState[clients[id]] # "CLOSED")

\* C27 (timer invariant): in every reachable state at most one offline timer
\* is pending per identifier, and a timer is pending for an identifier only
\* while the identifier is in the registry and the channel recorded for it
\* is closed; so the expiry of a timer never removes an open session.
C27_TimerInvariant ==
    /\ \A t1, t2 \in timers : t1.pid = t2.pid => t1 = t2
    /\ \A t \in timers :
          /\ t.pid \in DOMAIN clients
          /\ readyState[clients[t.pid]] = "CLOSED"
          /\ t.pid \in DOMAIN offlineTimers
          /\ offlineTimers[t.pid] = t.h

\* C27's case: timers are pending for two identifiers, one of them due, while
\* another channel is open.
C27_Witness ==
    /\ \E t1, t2 \in timers : t1.pid # t2.pid /\ t1.due = 0
    /\ \E v \in Sockets : Receives(v)

\* C28 (durable set never shrinks): as long as no file operation of a save has
\* failed, no step removes an identifier from the durable file: the
\* identifiers the file holds before the step are in the file after it.
C28_DurableSetNeverShrinks ==
    [][~ioFailed' => (file'.exists /\ file.ids \subseteq file'.ids) \/ file' = file]_vars

=============================================================================
